---- MODULE Spec2Model ----
(***************************************************************************)
(* The Prediction resource client of plantpredict (prediction.py): one     *)
(* caller thread driving one local Prediction object against the remote    *)
(* service.  The local object is its attribute dictionary (self.__dict__); *)
(* the service is the set of Prediction records it holds, each with a      *)
(* processing_status and a queued-simulation flag.  The PowerPlants are    *)
(* kept by another entity of the service: whether the original has one,    *)
(* and its tree, is decided when clone fetches it.  Every blocking call of *)
(* the client (run, clone) is a chain of steps, one per HTTP round trip,   *)
(* so that the service can move between them.                              *)
(***************************************************************************)
EXTENDS Integers, Sequences, FiniteSets, TLC

\* ---------------------------------------------------------------- bounds
\* Identifiers the service may assign: 1..MaxIds.
MaxIds == 2
\* The poll counter saturates here (it counts, it never stops the loop).
MaxPolls == 2
\* Largest number of Block/Array/Inverter/DC-Field rows in a PowerPlant tree.
MaxNodes == 4

\* ------------------------------------------------------------- encodings
\* Python's None, for the integer-valued attributes.
None == 0
\* Python's None, for the name attribute.
NoName == "None"
\* The completion sentinel of processing_status.
COMPLETE == 3
\* Every other processing_status (never run, queued, running, failed): the client
\* tests the attribute against the sentinel only.
NOT_COMPLETE == 0
Names == {"Original", "New Name"}
Projects == {1000}
IdArgs == 1..MaxIds
\* What the service puts in created_date, last_modified, project, ...
SRV == "srv"

\* The keys of a Prediction as the service returns it.
PredictionKeys ==
  {"id", "project_id", "name", "status", "year_repeater", "processing_status",
   "created_date", "last_modified", "last_modified_by", "last_modified_by_id",
   "project", "power_plant_id", "powerplant"}

\* --------------------------------------------------------- dict helpers
\* d.pop(k, None) for every k of ks.
Pop(d, ks) == [k \in (DOMAIN d) \ ks |-> d[k]]
\* d[k] = v
Put(d, k, v) == [x \in (DOMAIN d) \cup {k} |-> IF x = k THEN v ELSE d[x]]
Has(d, k) == k \in DOMAIN d

VARIABLES
  fields,          \* self.__dict__ of the caller's Prediction
  pc,              \* where the caller's thread is
  records,         \* the service: id -> Prediction record
  nextId,          \* the service: the next identifier it assigns
  response,        \* run(): status code of the run POST
  polls,           \* run(): get() calls issued by _wait_for_prediction (saturating)
  requested,       \* run(): the run POST of this call queued a simulation
  new_prediction,  \* clone(): new_prediction.__dict__ ({} outside clone)
  new_name,        \* clone(): new_prediction_name
  orig_id,         \* clone(): original_prediction_id
  new_id,          \* clone(): new_prediction_id
  new_powerplant,  \* clone(): new_powerplant.__dict__ ({} before it is fetched)
  pp_request,      \* clone(): the body of the PowerPlant create request ({}: none sent)
  snap,            \* clone(): the original as the service held it at the first refresh
  from_caller,     \* self.id holds an argument of __init__ or get, not a response's id
  last             \* how the last call of the caller ended

vars == <<fields, pc, records, nextId, response, polls, requested, new_prediction,
          new_name, orig_id, new_id, new_powerplant, pp_request, snap, from_caller, last>>

runVars == <<response, polls, requested>>
cloneVars == <<new_prediction, new_name, orig_id, new_id, new_powerplant, pp_request, snap>>

\* ------------------------------------------------------------ the service
Exists(i, p) == i \in DOMAIN records /\ records[i].project_id = p

\* GET /Project/{p}/Prediction/{i}: the record, all keys.
ServerView(i) ==
  [k \in PredictionKeys |->
     CASE k = "id" -> i
       [] k = "project_id" -> records[i].project_id
       [] k = "name" -> records[i].name
       [] k = "status" -> records[i].status
       [] k = "year_repeater" -> records[i].year_repeater
       [] k = "processing_status" -> records[i].processing_status
       [] k = "last_modified_by_id" -> None
       [] OTHER -> SRV]

\* POST /Project/{p}/Prediction is accepted: the required attributes are there.
CreateValid(d) ==
  /\ d["project_id"] \in Projects
  /\ d["name"] # NoName
  /\ d["status"] # None
  /\ d["year_repeater"] # None

\* The record the service stores for a create request with body d.
NewRecord(d) ==
  [project_id |-> d["project_id"], name |-> d["name"], status |-> d["status"],
   year_repeater |-> d["year_repeater"], processing_status |-> NOT_COMPLETE,
   pending |-> FALSE]

AddRecord(i, r) == [x \in (DOMAIN records) \cup {i} |-> IF x = i THEN r ELSE records[x]]
DropRecord(i) == [x \in (DOMAIN records) \ {i} |-> records[x]]

\* How a call ended: for run and clone whether it returned ("ok") or raised
\* ("error", and where), and what it returned; the plain calls leave no mark.
Outcome(op, outcome, stage, value) ==
  [op |-> op, outcome |-> outcome, stage |-> stage, value |-> value]

NoSnap == [id |-> None, name |-> NoName, project_id |-> None]

\* A call starts: the locals of the previous run()/clone() are gone.
FreshRun ==
  /\ response' = 0
  /\ polls' = 0
  /\ requested' = FALSE

FreshClone ==
  /\ new_prediction' = {}
  /\ new_name' = NoName
  /\ orig_id' = None
  /\ new_id' = None
  /\ new_powerplant' = {}
  /\ pp_request' = {}
  /\ snap' = NoSnap

FreshLocals == FreshRun /\ FreshClone

\* ------------------------------------------------------------------ CRUD
\* Prediction.__init__(id, project_id): self.id is set only for a truthy id
InitialDict(id, project_id) ==
  IF id # None
  THEN [id |-> id, project_id |-> project_id, name |-> NoName, status |-> None,
        year_repeater |-> None]
  ELSE [project_id |-> project_id, name |-> NoName, status |-> None,
        year_repeater |-> None]

Construct(id, project_id) ==
  /\ pc = "idle"
  /\ fields' = InitialDict(id, project_id)
  /\ from_caller' = (id # None)
  /\ last' = Outcome("crud", "", "", None)
  /\ FreshLocals
  /\ UNCHANGED <<pc, records, nextId>>

\* The caller assigns the attributes create() requires.
Populate(n) ==
  /\ pc = "idle"
  /\ fields' = Put(Put(Put(fields, "name", n), "status", 2), "year_repeater", 1)
  /\ last' = Outcome("crud", "", "", None)
  /\ FreshLocals
  /\ UNCHANGED <<pc, records, nextId, from_caller>>

\* PlantPredictEntity.create: POST the dict; on success self.id is the response's id.
Create ==
  /\ pc = "idle"
  /\ nextId <= MaxIds
  /\ IF CreateValid(fields)
     THEN /\ records' = AddRecord(nextId, NewRecord(fields))
          /\ nextId' = nextId + 1
          /\ fields' = Put(fields, "id", nextId)
          /\ from_caller' = FALSE
     ELSE \* the service rejects the request and create() raises
          UNCHANGED <<records, nextId, fields, from_caller>>
  /\ last' = Outcome("crud", "", "", None)
  /\ FreshLocals
  /\ UNCHANGED pc

\* Prediction.delete
Delete ==
  /\ pc = "idle"
  /\ IF Has(fields, "id") /\ Exists(fields["id"], fields["project_id"])
     THEN records' = DropRecord(fields["id"])
     ELSE \* no self.id (AttributeError) or no such record: delete() raises
          UNCHANGED records
  /\ last' = Outcome("crud", "", "", None)
  /\ FreshLocals
  /\ UNCHANGED <<pc, fields, nextId, from_caller>>

\* self.id = id if id is not None else self.id
GetOverrideIdSwapped(id, project_id, cur) == IF project_id # None THEN project_id ELSE cur
GetOverrideId(id, project_id, cur) == IF id # None THEN id ELSE cur

\* self.project_id = project_id if project_id is not None else self.project_id
GetOverrideProject(project_id, cur) == IF project_id # None THEN project_id ELSE cur

\* Prediction.get(id, project_id)
Get(id, project_id) ==
  /\ pc = "idle"
  /\ IF id = None /\ ~Has(fields, "id")
     THEN \* self.id is read and is not there: AttributeError
          UNCHANGED <<fields, from_caller>>
     ELSE LET cur == IF Has(fields, "id") THEN fields["id"] ELSE None
              d1 == Put(fields, "id", GetOverrideId(id, project_id, cur))
              d2 == Put(d1, "project_id", GetOverrideProject(project_id, d1["project_id"]))
          IN IF Exists(d2["id"], d2["project_id"])
             THEN \* every attribute is overwritten from the response
                  /\ fields' = ServerView(d2["id"])
                  /\ from_caller' = FALSE
             ELSE \* the GET fails and get() raises; the overrides stay
                  /\ fields' = d2
                  /\ from_caller' = (id # None \/ from_caller)
  /\ last' = Outcome("crud", "", "", None)
  /\ FreshLocals
  /\ UNCHANGED <<pc, records, nextId>>

\* Prediction.update: PUT the dict; the service replaces the record's attributes.
Update ==
  /\ pc = "idle"
  /\ IF Has(fields, "id") /\ Exists(fields["id"], fields["project_id"]) /\ CreateValid(fields)
     THEN /\ records' = [records EXCEPT ![fields["id"]] =
                           [@ EXCEPT !.name = fields["name"], !.status = fields["status"],
                                     !.year_repeater = fields["year_repeater"]]]
     ELSE UNCHANGED records
  /\ last' = Outcome("crud", "", "", None)
  /\ FreshLocals
  /\ UNCHANGED <<pc, fields, nextId, from_caller>>

\* ------------------------------------------------- the service's simulations
\* A queued simulation is picked up: the record no longer shows the sentinel of
\* an earlier run.
ServerStart(i) ==
  /\ i \in DOMAIN records
  /\ records[i].pending
  /\ records[i].processing_status = COMPLETE
  /\ records' = [records EXCEPT ![i].processing_status = NOT_COMPLETE]
  /\ UNCHANGED <<fields, pc, nextId, runVars, cloneVars, from_caller, last>>

\* A queued or running simulation finishes: the record shows the sentinel.
ServerFinish(i) ==
  /\ i \in DOMAIN records
  /\ records[i].pending
  /\ records' = [records EXCEPT ![i].processing_status = COMPLETE, ![i].pending = FALSE]
  /\ UNCHANGED <<fields, pc, nextId, runVars, cloneVars, from_caller, last>>

\* ------------------------------------------------------------------- run
\* handle_error_response: 200 <= status_code < 300
IsSuccess(code) == 200 <= code /\ code < 300

\* Prediction.run, up to the call of _wait_for_prediction: the run POST.  The
\* service rejects it (an unknown prediction, or one it refuses to run) or accepts
\* it and queues the simulation; the record's processing_status is reset with the
\* request (sync) or only when the queued simulation is picked up.
Run ==
  /\ pc = "idle"
  /\ FreshClone
  /\ polls' = 0
  /\ IF ~Has(fields, "id")
     THEN \* self.id is read for the URL and is not there: AttributeError
          /\ last' = Outcome("run", "error", "attribute", None)
          /\ response' = 0
          /\ requested' = FALSE
          /\ UNCHANGED <<pc, records>>
     ELSE /\ pc' = "poll_get"
          /\ last' = Outcome("run", "running", "", None)
          /\ \/ /\ Exists(fields["id"], fields["project_id"])
                /\ \E sync \in BOOLEAN :
                     records' = [records EXCEPT ![fields["id"]] =
                        [@ EXCEPT !.pending = TRUE,
                                  !.processing_status = IF sync THEN NOT_COMPLETE ELSE @]]
                /\ response' = 200
                /\ requested' = TRUE
             \/ /\ response' = 400
                /\ requested' = FALSE
                /\ UNCHANGED records
  /\ UNCHANGED <<fields, nextId, from_caller>>

\* self.processing_status == 3
IsCompleteInverted(status) == status # COMPLETE
IsComplete(status) == status = COMPLETE

\* while not is_complete
KeepPollingLimited(is_complete, n) == ~is_complete /\ n < MaxPolls
KeepPolling(is_complete, n) == ~is_complete

Bump(n) == IF n < MaxPolls THEN n + 1 ELSE n

\* _wait_for_prediction: self.get()
WaitGet ==
  /\ pc = "poll_get"
  /\ IF Exists(fields["id"], fields["project_id"])
     THEN /\ fields' = ServerView(fields["id"])
          /\ from_caller' = FALSE
          /\ polls' = Bump(polls)
          /\ pc' = "poll_check"
          /\ UNCHANGED last
     ELSE \* the GET fails and get() raises out of run()
          /\ pc' = "idle"
          /\ last' = Outcome("run", "error", "poll", response)
          /\ UNCHANGED <<fields, polls, from_caller>>
  /\ UNCHANGED <<records, nextId, response, requested, cloneVars>>

\* _wait_for_prediction: the test of processing_status; when the loop ends run()
\* returns the run POST's response, which handle_error_response then inspects.
WaitCheck ==
  /\ pc = "poll_check"
  /\ IF KeepPolling(IsComplete(fields["processing_status"]), polls)
     THEN /\ pc' = "poll_get"
          /\ UNCHANGED last
     ELSE /\ pc' = "idle"
          /\ last' = IF IsSuccess(response)
                     THEN Outcome("run", "ok", "", response)
                     ELSE Outcome("run", "error", "post", response)
  /\ UNCHANGED <<fields, records, nextId, runVars, cloneVars, from_caller>>

\* ------------------------------------------------------ PowerPlant trees
\* A persisted row of the tree at a level (1 Block, 2 Array, 3 Inverter,
\* 4 DC-Field) with its children: every persisted row carries its id.
Row(level, kids) ==
  CASE level = 1 -> [id |-> level, arrays |-> kids]
    [] level = 2 -> [id |-> level, inverters |-> kids]
    [] level = 3 -> [id |-> level, dc_fields |-> kids]
    [] OTHER -> [id |-> level]

\* The sequences of rows of a level that hold n rows in all, descendants included.
RECURSIVE Forest(_, _)
Forest(level, n) ==
  IF n = 0 THEN {<<>>}
  ELSE IF level > 4 THEN {}
  ELSE UNION { { <<Row(level, kids)>> \o rest :
                   kids \in Forest(level + 1, k - 1), rest \in Forest(level, n - k) } :
               k \in 1..n }

\* The blocks attribute of a PowerPlant the service may hold.
BlockLists == UNION { Forest(1, n) : n \in 0..MaxNodes }

\* GET of the PowerPlant of prediction i in project p, with these blocks.
PowerPlantView(p, i, blocks) ==
  [id |-> i, project_id |-> p, prediction_id |-> i, blocks |-> blocks]

\* for dc_field in inverter['dc_fields']: dc_field.pop('id', None)
StripDcFieldsMissed(dc_fields) == dc_fields
StripDcFields(dc_fields) == [i \in DOMAIN dc_fields |-> Pop(dc_fields[i], {"id"})]

\* for inverter in array['inverters']: inverter.pop('id', None); ...
StripInverters(inverters) ==
  [i \in DOMAIN inverters |->
     LET inverter == Pop(inverters[i], {"id"})
     IN  [inverter EXCEPT !["dc_fields"] = StripDcFields(@)]]

\* for array in block['arrays']: array.pop('id', None); ...
StripArrays(arrays) ==
  [i \in DOMAIN arrays |->
     LET array == Pop(arrays[i], {"id"})
     IN  [array EXCEPT !["inverters"] = StripInverters(@)]]

\* for block in new_powerplant.blocks: block.pop('id', None); ...
StripBlocks(blocks) ==
  [i \in DOMAIN blocks |->
     LET block == Pop(blocks[i], {"id"})
     IN  [block EXCEPT !["arrays"] = StripArrays(@)]]

\* new_powerplant: the fetched PowerPlant repointed at the new prediction, its
\* id popped, the ids of its rows popped.
DuplicatePowerPlant(powerplant, new_prediction_id) ==
  LET repointed == Put(powerplant, "prediction_id", new_prediction_id)
      popped == Pop(repointed, {"id"})
  IN  [popped EXCEPT !["blocks"] = StripBlocks(@)]

\* ----------------------------------------------------------------- clone
\* new_prediction.__dict__ = self.__dict__: the two objects share one dict.
SameObjectCopied == FALSE
SameObject == TRUE

\* What self.__dict__ is once new_prediction.__dict__ has become d.
SelfAfter(d) == IF SameObject THEN d ELSE fields

\* The keys clone pops from the dict before it creates the new Prediction.
PoppedKeys ==
  {"prediction_id", "created_date", "last_modified", "last_modified_by",
   "last_modified_by_id", "project", "power_plant_id", "powerplant"}

\* self.id = original_prediction_id
RestoreIdSkipped(d, original_prediction_id) == d
RestoreId(d, original_prediction_id) == Put(d, "id", original_prediction_id)

\* return new_prediction_id
CloneReturnsSelfId(new_prediction_id, d) == d["id"]
CloneReturns(new_prediction_id, d) == new_prediction_id

CloneFails(stage) ==
  /\ pc' = "idle"
  /\ last' = Outcome("clone", "error", stage, None)

\* clone: new_prediction = Prediction(); self.get(); original_prediction_id = self.id
Clone(n) ==
  /\ pc = "idle"
  /\ nextId <= MaxIds
  /\ FreshRun
  /\ new_name' = n
  /\ new_prediction' = {}
  /\ new_id' = None
  /\ new_powerplant' = {}
  /\ pp_request' = {}
  /\ IF Has(fields, "id") /\ Exists(fields["id"], fields["project_id"])
     THEN /\ fields' = ServerView(fields["id"])
          /\ orig_id' = fields["id"]
          /\ snap' = [id |-> fields["id"], name |-> records[fields["id"]].name,
                      project_id |-> records[fields["id"]].project_id]
          /\ from_caller' = FALSE
          /\ pc' = "clone_strip"
          /\ last' = Outcome("clone", "running", "", None)
     ELSE /\ CloneFails(IF Has(fields, "id") THEN "get" ELSE "attribute")
          /\ orig_id' = None
          /\ snap' = NoSnap
          /\ UNCHANGED <<fields, from_caller>>
  /\ UNCHANGED <<records, nextId>>

\* clone: new_prediction.__dict__ = self.__dict__; the pops; the new name
CloneStrip ==
  /\ pc = "clone_strip"
  /\ LET d == Put(Pop(fields, PoppedKeys), "name", new_name)
     IN  /\ new_prediction' = {d}
         /\ fields' = SelfAfter(d)
  /\ pc' = "clone_create"
  /\ UNCHANGED <<records, nextId, runVars, new_name, orig_id, new_id, new_powerplant,
                 pp_request, snap, from_caller, last>>

\* clone: new_prediction.create(); new_prediction_id = new_prediction.id
CloneCreate ==
  /\ pc = "clone_create"
  /\ \E d \in new_prediction :
       IF CreateValid(d)
       THEN /\ records' = AddRecord(nextId, NewRecord(d))
            /\ nextId' = nextId + 1
            /\ new_prediction' = {Put(d, "id", nextId)}
            /\ fields' = SelfAfter(Put(d, "id", nextId))
            /\ new_id' = nextId
            /\ pc' = "clone_pp_get"
            /\ UNCHANGED last
       ELSE /\ CloneFails("create")
            /\ UNCHANGED <<records, nextId, new_prediction, fields, new_id>>
  /\ UNCHANGED <<runVars, new_name, orig_id, new_powerplant, pp_request, snap, from_caller>>

\* clone: the original's PowerPlant is fetched and duplicated; the fetch fails
\* when the original has none
ClonePowerPlantGet ==
  /\ pc = "clone_pp_get"
  /\ \/ /\ Exists(orig_id, fields["project_id"])
        /\ \E blocks \in BlockLists :
             new_powerplant' =
               {DuplicatePowerPlant(PowerPlantView(fields["project_id"], orig_id, blocks),
                                    new_id)}
        /\ pc' = "clone_pp_create"
        /\ UNCHANGED last
     \/ /\ CloneFails("pp_get")
        /\ UNCHANGED new_powerplant
  /\ UNCHANGED <<fields, records, nextId, runVars, new_prediction, new_name, orig_id,
                 new_id, pp_request, snap, from_caller>>

\* clone: new_powerplant.create(); the service accepts or rejects the tree
ClonePowerPlantCreate ==
  /\ pc = "clone_pp_create"
  /\ pp_request' = new_powerplant
  /\ \/ /\ new_id \in DOMAIN records
        /\ pc' = "clone_restore"
        /\ UNCHANGED last
     \/ CloneFails("pp_create")
  /\ UNCHANGED <<fields, records, nextId, runVars, new_prediction, new_name, orig_id, new_id,
                 new_powerplant, snap, from_caller>>

\* clone: self.id = original_prediction_id; self.get(); return new_prediction_id
CloneRestore ==
  /\ pc = "clone_restore"
  /\ LET d == RestoreId(fields, orig_id)
     IN  IF Exists(d["id"], d["project_id"])
         THEN /\ fields' = ServerView(d["id"])
              /\ last' = Outcome("clone", "ok", "", CloneReturns(new_id, d))
         ELSE /\ fields' = d
              /\ last' = Outcome("clone", "error", "restore", None)
  /\ pc' = "idle"
  /\ UNCHANGED <<records, nextId, runVars, cloneVars, from_caller>>

\* --------------------------------------------------------- specification
Init ==
  /\ \E id \in IdArgs \cup {None}, project_id \in Projects \cup {None} :
       /\ fields = InitialDict(id, project_id)
       /\ from_caller = (id # None)
  /\ pc = "idle"
  /\ records = <<>>
  /\ nextId = 1
  /\ response = 0
  /\ polls = 0
  /\ requested = FALSE
  /\ new_prediction = {}
  /\ new_name = NoName
  /\ orig_id = None
  /\ new_id = None
  /\ new_powerplant = {}
  /\ pp_request = {}
  /\ snap = NoSnap
  /\ last = Outcome("crud", "", "", None)

CallerStep ==
  \/ \E id \in IdArgs \cup {None}, project_id \in Projects \cup {None} :
       Construct(id, project_id)
  \/ \E n \in Names : Populate(n)
  \/ Create
  \/ Delete
  \/ \E id \in IdArgs \cup {None}, project_id \in Projects \cup {None} : Get(id, project_id)
  \/ Update
  \/ Run
  \/ WaitGet
  \/ WaitCheck
  \/ \E n \in Names : Clone(n)
  \/ CloneStrip
  \/ CloneCreate
  \/ ClonePowerPlantGet
  \/ ClonePowerPlantCreate
  \/ CloneRestore

ServiceStep == \E i \in 1..MaxIds : ServerStart(i) \/ ServerFinish(i)

Next == CallerStep \/ ServiceStep

Spec == Init /\ [][Next]_vars

\* The caller's thread runs on when it can, and a queued simulation finishes.
FairSpec == Spec /\ WF_vars(CallerStep) /\ \A i \in 1..MaxIds : WF_vars(ServerFinish(i))

\* ------------------------------------------------------------ properties
Polling == pc \in {"poll_get", "poll_check"}
RunReturned == pc = "idle" /\ last.op = "run" /\ last.outcome = "ok"
CloneReturned == pc = "idle" /\ last.op = "clone" /\ last.outcome = "ok"
CloneFailedAfterCreate ==
  pc = "idle" /\ last.op = "clone" /\ last.outcome = "error"
  /\ last.stage \in {"pp_get", "pp_create"}
Assigned == 1..(nextId - 1)

\* C1: whenever run() has returned, its polling loop has issued at least one get()
\* after the run POST and the local processing_status is the completion sentinel 3
\* (also when the loop ended and the POST's error status was then raised).
C1_RunReturnsOnlyOnComplete ==
  (pc = "idle" /\ last.op = "run" /\ (last.outcome = "ok" \/ last.stage = "post"))
    => (polls >= 1 /\ fields["processing_status"] = COMPLETE)

\* C1 witness: run() has returned after more than one poll.
C1_Witness == RunReturned /\ polls >= 2

\* C2: when run() has returned, the simulation its run POST queued has finished.
C2_RunBlocksUntilSimulationFinished ==
  (RunReturned /\ requested) => ~records[fields["id"]].pending

\* C3: the loop has no way out but the sentinel: from the test of a status that is
\* not 3 the call never ends, however many get() were issued, and the next step of
\* the caller is another get(); a call that ends without an error ended at a test
\* that saw 3.
C3_PollLoopUnbounded ==
  [][ /\ (pc = "poll_check" /\ fields["processing_status"] # COMPLETE)
          => (pc' \in {"poll_check", "poll_get"})
      /\ (Polling /\ pc' = "idle" /\ last'.stage # "poll")
          => (pc = "poll_check" /\ fields["processing_status"] = COMPLETE) ]_vars

\* C3 witness: the loop is issuing yet another get() after MaxPolls of them.
C3_Witness ==
  pc = "poll_get" /\ polls = MaxPolls /\ fields["processing_status"] # COMPLETE

\* C4: the step on which clone returns leaves self equal to the service's current
\* state of the original prediction (id, project_id and name those of the
\* original), and the original's record is as it was at clone's first refresh.
C4_CloneRestoresOriginal ==
  [][ (pc = "clone_restore" /\ pc' = "idle" /\ last'.outcome = "ok")
        => /\ snap.id \in DOMAIN records'
           /\ fields' = ServerView(snap.id)'
           /\ fields'["id"] = snap.id
           /\ fields'["project_id"] = snap.project_id
           /\ fields'["name"] = snap.name
           /\ records'[snap.id].name = snap.name
           /\ records'[snap.id].project_id = snap.project_id ]_vars

\* C4 witness: clone has returned and the new prediction's name is not the original's.
C4_Witness == CloneReturned /\ new_name # snap.name /\ fields["name"] = snap.name

\* C5: clone returns the identifier the service assigned to the record it created,
\* which is not the original's, and that record's name is new_prediction_name.
C5_CloneReturnsNewId ==
  CloneReturned
    => /\ last.value = nextId - 1
       /\ last.value # snap.id
       /\ last.value \in DOMAIN records
       /\ records[last.value].name = new_name

\* C5 witness: clone has returned the identifier of a record that exists.
C5_Witness == CloneReturned /\ last.value \in DOMAIN records /\ snap.id \in DOMAIN records

Rows(seq) == {seq[i] : i \in DOMAIN seq}
NoIdInTree(plant) ==
  /\ ~Has(plant, "id")
  /\ \A block \in Rows(plant["blocks"]) :
       /\ ~Has(block, "id")
       /\ \A array \in Rows(block["arrays"]) :
            /\ ~Has(array, "id")
            /\ \A inverter \in Rows(array["inverters"]) :
                 /\ ~Has(inverter, "id")
                 /\ \A dc_field \in Rows(inverter["dc_fields"]) : ~Has(dc_field, "id")

\* C6: the body of the PowerPlant create request carries no id key, on the
\* PowerPlant or on any Block, Array, Inverter or DC-Field, and its prediction_id is
\* the new prediction's identifier, not the original's.
C6_PowerPlantRequestHasNoIds ==
  \A plant \in pp_request :
    /\ NoIdInTree(plant)
    /\ plant["prediction_id"] = nextId - 1
    /\ plant["prediction_id"] # snap.id

\* C6 witness: a request was sent for a tree that reaches down to a DC-Field.
C6_Witness ==
  \E plant \in pp_request :
    /\ plant["prediction_id"] = new_id
    /\ \E block \in Rows(plant["blocks"]) :
         \E array \in Rows(block["arrays"]) :
           \E inverter \in Rows(array["inverters"]) : Len(inverter["dc_fields"]) >= 1

\* C7: when create() is called for the new prediction, its dict holds no id, no
\* created/modified metadata, no project linkage and no powerplant linkage.
C7_NewPredictionDictStripped ==
  pc = "clone_create"
    => \A d \in new_prediction :
         (DOMAIN d) \cap {"id", "created_date", "last_modified", "last_modified_by",
                          "last_modified_by_id", "project", "power_plant_id",
                          "powerplant"} = {}

\* C8: the object's id is absent or names a record that exists on the service.
C8_IdNamesExistingRecord ==
  Has(fields, "id") => fields["id"] \in DOMAIN records

\* C8 as amended: the object's id is absent, or an argument the caller passed to the
\* constructor or to get(), or an identifier the service assigned to a record.
C8_IdIsNeverInvented ==
  Has(fields, "id") => (from_caller \/ fields["id"] \in Assigned)

\* C8 witness: the object holds a service-assigned id whose record is gone.
C8_Witness ==
  Has(fields, "id") /\ ~from_caller /\ fields["id"] \in Assigned
  /\ fields["id"] \notin DOMAIN records

\* C9: a run() whose POST the service rejected ends with the error.
C9_RejectedRunEndsWithError ==
  (Polling /\ ~IsSuccess(response))
    ~> (pc = "idle" /\ last.op = "run" /\ last.outcome = "error")

\* C10: when clone fails after it created the new prediction, self is left as the
\* new prediction (its id and the new name, the very dict of new_prediction), and
\* the new prediction is still on the service, whose PowerPlant either was never
\* sent or was rejected.
C10_FailedCloneLeavesSelfAsNew ==
  CloneFailedAfterCreate
    => /\ fields["id"] = new_id
       /\ new_id # snap.id
       /\ fields["name"] = new_name
       /\ new_prediction = {fields}
       /\ new_id \in DOMAIN records
       /\ records[new_id].name = new_name
       /\ (last.stage = "pp_get") <=> (pp_request = {})

\* C10 witness: the PowerPlant create was rejected and self carries the new name.
C10_Witness ==
  CloneFailedAfterCreate /\ last.stage = "pp_create" /\ fields["name"] # snap.name

====
